---- MODULE Spec2Model ----
(***************************************************************************)
(* Model of battery_monitoring.py: the module-level start-up (argument     *)
(* handling, device detection), notify(), the four notification rules,    *)
(* the dynamic interval and the poll loop of main().                       *)
(*                                                                         *)
(* One iteration of main()'s loop (lines 387-413) is the action Poll; the  *)
(* time.sleep at line 415 is the action Sleep.  The contents of the sysfs  *)
(* files read in an iteration are the inputs of Poll.                      *)
(***************************************************************************)
EXTENDS Integers, Sequences, FiniteSets

VARIABLES
    pc,              \* "start", "exit1" (sys.exit(1)), "loop" (top of while), "sleep",
                     \* "crashed" (an exception left main())
    args_no_notify,  \* module global args.no_notify, line 72
    NOTIFY_AVAILABLE, \* module global, line 225
    CHECK_INTERVAL,  \* module global, line 78
    BATTERIES,       \* module global, line 166: sequence of device names
    AC_ADAPTERS,     \* module global, line 166: sequence of device names
    notified,        \* main()'s local: name -> [low, high, unplug, full]
    bats,            \* main()'s local: the readings of the current iteration
    plugged,         \* main()'s local
    interval,        \* main()'s local: <<>> before it is assigned, else <<seconds>>
    fired,           \* the notify() calls of the current iteration: {<<name, class>>}
    tree,            \* the battery directories in /sys/class/power_supply at read time
    onlineRead,      \* what safe_read returned for "online" of each adapter in this
                     \* iteration
    before,          \* notified, plugged and hist as they were when the iteration
                     \* started, and the latch map the rules were evaluated on
    runFires,        \* name -> class -> notify() calls in the current unbroken run of
                     \* polls in which the class's trigger condition holds
    hist,            \* name -> class -> what has happened since the class last fired,
                     \* for the batteries a specification follows (its domain)
    outcomes,        \* <<name, class>> -> what notify() did for the call of this
                     \* iteration
    twin             \* pc and notified of a second run of the program that is given
                     \* the same readings and delivers every notification

vars == <<pc, CHECK_INTERVAL, BATTERIES, AC_ADAPTERS, notified, bats, plugged,
          interval, fired, tree, onlineRead, before, runFires, hist,
          args_no_notify, NOTIFY_AVAILABLE, outcomes, twin>>

(***************************************************************************)
(* Program constants.                                                      *)
(***************************************************************************)
DEFAULT_CHECK_INTERVAL == 60
LOW_THRESHOLD == 20
HIGH_THRESHOLD == 85
UNPLUG_THRESHOLD == 95
FULL_THRESHOLD == 100

Classes == {"low", "high", "unplug", "full"}

(***************************************************************************)
(* The environment the model explores.                                     *)
(***************************************************************************)
\* Battery directories that may exist under /sys/class/power_supply, in the
\* order iterdir() lists them, and the one AC adapter directory.
BatDirs == <<"BAT0", "BAT1">>
AcDirs == <<"AC">>
BatNames == {BatDirs[i] : i \in 1..Len(BatDirs)}

\* Optional values: None is <<>>, a value v is <<v>>.
None == <<>>
Some(v) == <<v>>
Val(o) == o[1]

\* Texts a capacity file may hold (after strip()), and the integer int() gives
\* for the decimal ones; int() raises ValueError for the others.
CapTexts == {"20", "40", "85", "95", "100", "abc"}
SchedCapTexts == {"20", "21", "40", "41", "85", "abc"}
Decimal(s) ==
    CASE s = "20" -> Some(20)
      [] s = "21" -> Some(21)
      [] s = "40" -> Some(40)
      [] s = "41" -> Some(41)
      [] s = "85" -> Some(85)
      [] s = "95" -> Some(95)
      [] s = "100" -> Some(100)
      [] OTHER -> None

\* Texts a status file may hold, and str.lower() of them.
StatusTexts == {"Charging", "Discharging", "Full"}
lower(s) ==
    CASE s = "Charging" -> "charging"
      [] s = "Discharging" -> "discharging"
      [] s = "Full" -> "full"
      [] OTHER -> s

OnlineTexts == {"0", "1"}

\* The largest --interval the model starts the program with.
MaxInterval == 61

\* The largest minimum percent the properties of dynamic_interval range over.
MaxPercent == 100

\* safe_read(path, fname): None when the read raises, else the stripped text.
\* A file of a directory that does not exist cannot be read.
safe_read(texts) == {None} \cup {Some(t) : t \in texts}

Max(a, b) == IF a >= b THEN a ELSE b

(***************************************************************************)
(* Device detection and reading (lines 149-220).                           *)
(***************************************************************************)
\* detect_power_devices(): the battery and adapter directories found, given the
\* directories that exist (none when /sys/class/power_supply does not exist).
detect_power_devices(batDirs, acDirs) ==
    [bats |-> SelectSeq(BatDirs, LAMBDA d : d \in batDirs),
     acs  |-> SelectSeq(AcDirs, LAMBDA d : d \in acDirs)]

\* One battery of read_all_batteries(): cap and status are safe_read's results.
read_battery(name, cap, status) ==
    [name    |-> name,
     percent |-> IF cap # None /\ Val(cap) # "" THEN Decimal(Val(cap)) ELSE None,
     status  |-> lower(IF status # None THEN Val(status) ELSE "")]

\* read_all_batteries(): files[i] holds what safe_read returns for BATTERIES[i].
read_all_batteries(files) ==
    [i \in 1..Len(BATTERIES) |->
        read_battery(BATTERIES[i], files[i].capacity, files[i].status)]

\* Variant: only the status "charging" counts.
is_plugged_any_charging_only(batts, online) ==
    \/ \E i \in 1..Len(batts) : batts[i].status = "charging"
    \/ \E i \in 1..Len(AC_ADAPTERS) : online[i] = Some("1")

\* is_plugged_any(batts): online[i] is what safe_read returns for AC_ADAPTERS[i].
is_plugged_any(batts, online) ==
    \/ \E i \in 1..Len(batts) : batts[i].status \in {"charging", "full"}
    \/ \E i \in 1..Len(AC_ADAPTERS) : online[i] = Some("1")

(***************************************************************************)
(* The notification rules (lines 260-320).  Each gives the value returned  *)
(* (ret) and whether notify() was called (sent).                           *)
(***************************************************************************)
\* Variant: an unknown percent is taken as 0 (bat.get("percent") or 0).
check_low_none_as_zero(bat, plug, notif) ==
    LET p == IF bat.percent = None THEN 0 ELSE Val(bat.percent) IN
    IF p <= LOW_THRESHOLD /\ ~plug /\ ~notif
    THEN [ret |-> TRUE, sent |-> TRUE]
    ELSE [ret |-> IF plug THEN FALSE ELSE notif, sent |-> FALSE]

\* Variant: the latch is reset only once the percent is above the threshold.
check_low_reset_above(bat, plug, notif) ==
    LET p == bat.percent IN
    IF p = None THEN [ret |-> notif, sent |-> FALSE]
    ELSE IF Val(p) <= LOW_THRESHOLD /\ ~plug /\ ~notif
         THEN [ret |-> TRUE, sent |-> TRUE]
         ELSE [ret |-> IF plug /\ Val(p) > LOW_THRESHOLD THEN FALSE ELSE notif,
               sent |-> FALSE]

\* Variant: the trigger does not look at plugged.
check_low_ignores_plugged(bat, plug, notif) ==
    LET p == bat.percent IN
    IF p = None THEN [ret |-> notif, sent |-> FALSE]
    ELSE IF Val(p) <= LOW_THRESHOLD /\ ~notif
         THEN [ret |-> TRUE, sent |-> TRUE]
         ELSE [ret |-> IF plug THEN FALSE ELSE notif, sent |-> FALSE]

\* Variant: the latch is never reset.
check_low_never_reset(bat, plug, notif) ==
    LET p == bat.percent IN
    IF p = None THEN [ret |-> notif, sent |-> FALSE]
    ELSE IF Val(p) <= LOW_THRESHOLD /\ ~plug /\ ~notif
         THEN [ret |-> TRUE, sent |-> TRUE]
         ELSE [ret |-> notif, sent |-> FALSE]

check_low(bat, plug, notif) ==
    LET p == bat.percent IN
    IF p = None THEN [ret |-> notif, sent |-> FALSE]
    ELSE IF Val(p) <= LOW_THRESHOLD /\ ~plug /\ ~notif
         THEN [ret |-> TRUE, sent |-> TRUE]
         ELSE [ret |-> IF plug THEN FALSE ELSE notif, sent |-> FALSE]

\* Variant: the value passed in is returned after notify() instead of True.
check_high_keeps_latch(bat, plug, notif) ==
    LET p == bat.percent IN
    IF p = None THEN [ret |-> notif, sent |-> FALSE]
    ELSE IF plug /\ Val(p) >= HIGH_THRESHOLD /\ ~notif
         THEN [ret |-> notif, sent |-> TRUE]
         ELSE [ret |-> IF ~plug THEN FALSE ELSE notif, sent |-> FALSE]

\* Variant: the latch is never reset.
check_high_never_reset(bat, plug, notif) ==
    LET p == bat.percent IN
    IF p = None THEN [ret |-> notif, sent |-> FALSE]
    ELSE IF plug /\ Val(p) >= HIGH_THRESHOLD /\ ~notif
         THEN [ret |-> TRUE, sent |-> TRUE]
         ELSE [ret |-> notif, sent |-> FALSE]

check_high(bat, plug, notif) ==
    LET p == bat.percent IN
    IF p = None THEN [ret |-> notif, sent |-> FALSE]
    ELSE IF plug /\ Val(p) >= HIGH_THRESHOLD /\ ~notif
         THEN [ret |-> TRUE, sent |-> TRUE]
         ELSE [ret |-> IF ~plug THEN FALSE ELSE notif, sent |-> FALSE]

\* Variant: the reset needs both unplugged and a percent below the threshold.
check_unplug_reset_needs_both(bat, plug, notif) ==
    LET p == bat.percent IN
    IF p = None THEN [ret |-> notif, sent |-> FALSE]
    ELSE IF plug /\ Val(p) >= UNPLUG_THRESHOLD /\ ~notif
         THEN [ret |-> TRUE, sent |-> TRUE]
         ELSE [ret |-> IF ~plug /\ Val(p) < UNPLUG_THRESHOLD THEN FALSE ELSE notif,
               sent |-> FALSE]

\* Variant: unplugged resets the latch before the percent is looked at.
check_unplug_reset_unknown(bat, plug, notif) ==
    LET p == bat.percent IN
    IF ~plug THEN [ret |-> FALSE, sent |-> FALSE]
    ELSE IF p = None THEN [ret |-> notif, sent |-> FALSE]
    ELSE IF Val(p) >= UNPLUG_THRESHOLD /\ ~notif
         THEN [ret |-> TRUE, sent |-> TRUE]
         ELSE [ret |-> IF Val(p) < UNPLUG_THRESHOLD THEN FALSE ELSE notif,
               sent |-> FALSE]

check_unplug(bat, plug, notif) ==
    LET p == bat.percent IN
    IF p = None THEN [ret |-> notif, sent |-> FALSE]
    ELSE IF plug /\ Val(p) >= UNPLUG_THRESHOLD /\ ~notif
         THEN [ret |-> TRUE, sent |-> TRUE]
         ELSE [ret |-> IF ~plug \/ Val(p) < UNPLUG_THRESHOLD THEN FALSE ELSE notif,
               sent |-> FALSE]

\* Variant: the trigger compares with > instead of >=.
check_full_strict(bat, plug, notif) ==
    LET p == bat.percent IN
    IF p = None THEN [ret |-> notif, sent |-> FALSE]
    ELSE IF plug /\ Val(p) > FULL_THRESHOLD /\ ~notif
         THEN [ret |-> TRUE, sent |-> TRUE]
         ELSE [ret |-> IF ~plug \/ Val(p) < FULL_THRESHOLD THEN FALSE ELSE notif,
               sent |-> FALSE]

\* Variant: the reset looks at the percent only.
check_full_reset_below_only(bat, plug, notif) ==
    LET p == bat.percent IN
    IF p = None THEN [ret |-> notif, sent |-> FALSE]
    ELSE IF plug /\ Val(p) >= FULL_THRESHOLD /\ ~notif
         THEN [ret |-> TRUE, sent |-> TRUE]
         ELSE [ret |-> IF Val(p) < FULL_THRESHOLD THEN FALSE ELSE notif,
               sent |-> FALSE]

check_full(bat, plug, notif) ==
    LET p == bat.percent IN
    IF p = None THEN [ret |-> notif, sent |-> FALSE]
    ELSE IF plug /\ Val(p) >= FULL_THRESHOLD /\ ~notif
         THEN [ret |-> TRUE, sent |-> TRUE]
         ELSE [ret |-> IF ~plug \/ Val(p) < FULL_THRESHOLD THEN FALSE ELSE notif,
               sent |-> FALSE]

(***************************************************************************)
(* Scheduling and the latch map (lines 364-378).                           *)
(***************************************************************************)
dynamic_interval(min_percent) ==
    IF min_percent <= 20 THEN 20
    ELSE IF min_percent <= 40 THEN 40
    ELSE CHECK_INTERVAL

\* Variant: subprocess.run is called without the try/except around it.
notify_unguarded(no_notify, available, raises) ==
    IF no_notify THEN "dry-run"
    ELSE IF available
         THEN (IF raises THEN "raised" ELSE "sent")
         ELSE "missing"

\* notify(), lines 230-254: what the call does.  raises is whether
\* subprocess.run raises an exception in this call.  "dry-run": only logged
\* (lines 233-235); "sent": notify-send was run (lines 247-250); "failed": the
\* exception was caught and logged (lines 251-252); "missing": notify-send is
\* not installed, the command is logged (lines 253-254).  "raised" would be an
\* exception that leaves notify(); no path of the function gives it.
notify(no_notify, available, raises) ==
    IF no_notify THEN "dry-run"
    ELSE IF available
         THEN (IF raises THEN "failed" ELSE "sent")
         ELSE "missing"

\* init_notified() over the given BATTERIES.
init_notified(batteries) ==
    [n \in {batteries[i] : i \in 1..Len(batteries)} |->
        [low |-> FALSE, high |-> FALSE, unplug |-> FALSE, full |-> FALSE]]

\* min() of a non-empty sequence of integers.
min(s) == CHOOSE m \in {s[i] : i \in 1..Len(s)} :
              \A i \in 1..Len(s) : m <= s[i]

(***************************************************************************)
(* main() (lines 383-415).                                                 *)
(***************************************************************************)
\* Variant: check_full is skipped in an iteration in which unplug has fired.
eval_battery_full_skipped(b, plug, st) ==
    LET name == b.name
        old == st.notified[name]
        lo == check_low(b, plug, old.low)
        hi == check_high(b, plug, old.high)
        un == check_unplug(b, plug, old.unplug)
        fu == IF un.sent THEN [ret |-> old.full, sent |-> FALSE]
              ELSE check_full(b, plug, old.full)
    IN  [notified |-> [st.notified EXCEPT ![name] =
                          [low |-> lo.ret, high |-> hi.ret,
                           unplug |-> un.ret, full |-> fu.ret]],
         fired    |-> st.fired
                        \cup (IF lo.sent THEN {<<name, "low">>} ELSE {})
                        \cup (IF hi.sent THEN {<<name, "high">>} ELSE {})
                        \cup (IF un.sent THEN {<<name, "unplug">>} ELSE {})
                        \cup (IF fu.sent THEN {<<name, "full">>} ELSE {})]

\* The body of "for b in bats" for one battery (lines 403-409): the latch map
\* and the notify() calls after it.  Each rule reads and writes its own key.
eval_battery(b, plug, st) ==
    LET name == b.name
        old == st.notified[name]
        lo == check_low(b, plug, old.low)
        hi == check_high(b, plug, old.high)
        un == check_unplug(b, plug, old.unplug)
        fu == check_full(b, plug, old.full)
    IN  [notified |-> [st.notified EXCEPT ![name] =
                          [low |-> lo.ret, high |-> hi.ret,
                           unplug |-> un.ret, full |-> fu.ret]],
         fired    |-> st.fired
                        \cup (IF lo.sent THEN {<<name, "low">>} ELSE {})
                        \cup (IF hi.sent THEN {<<name, "high">>} ELSE {})
                        \cup (IF un.sent THEN {<<name, "unplug">>} ELSE {})
                        \cup (IF fu.sent THEN {<<name, "full">>} ELSE {})]

\* "for b in bats" from the i-th reading on (lines 401-409).
RECURSIVE eval_from(_, _, _, _)
eval_from(i, batts, plug, st) ==
    IF i > Len(batts) THEN st
    ELSE eval_from(i + 1, batts, plug, eval_battery(batts[i], plug, st))

\* Variant: an unknown percent is kept as 0.
known_percents_none_as_zero(batts) ==
    [i \in 1..Len(batts) |->
        IF batts[i].percent = None THEN 0 ELSE Val(batts[i].percent)]

\* percents (line 411).
known_percents(batts) ==
    LET known == SelectSeq(batts, LAMBDA b : b.percent # None)
    IN  [i \in 1..Len(known) |-> Val(known[i].percent)]

\* interval (line 413).
next_interval(batts) ==
    LET percents == known_percents(batts)
    IN  dynamic_interval(IF percents # <<>> THEN min(percents) ELSE CHECK_INTERVAL)

(***************************************************************************)
(* The trigger condition of each class (spec 4.3), for the bookkeeping of  *)
(* runFires and for the properties.                                        *)
(***************************************************************************)
Trigger(class, b, plug) ==
    /\ b.percent # None
    /\ CASE class = "low"    -> Val(b.percent) <= 20 /\ ~plug
         [] class = "high"   -> plug /\ Val(b.percent) >= 85
         [] class = "unplug" -> plug /\ Val(b.percent) >= 95
         [] class = "full"   -> plug /\ Val(b.percent) >= 100

Reading(batts, name) == batts[CHOOSE i \in 1..Len(batts) : batts[i].name = name]

NoRun == [c \in Classes |-> 0]

\* What has happened to a class of a battery since its notification last
\* fired: "idle" (it never fired), "fired" (no poll has observed unplugged
\* since), "unplugged-unknown" (polls have observed unplugged since, each with
\* the battery's percent unknown), "unplugged-known" (a poll has observed
\* unplugged with the percent known since).
Since(was, firedNow, plug, known) ==
    IF firedNow THEN "fired"
    ELSE IF was = "idle" \/ plug THEN was
    ELSE IF known THEN "unplugged-known"
    ELSE IF was = "unplugged-known" THEN was
    ELSE "unplugged-unknown"

(***************************************************************************)
(* Actions.                                                                *)
(***************************************************************************)
Init ==
    /\ pc = "start"
    /\ CHECK_INTERVAL = DEFAULT_CHECK_INTERVAL
    /\ BATTERIES = <<>>
    /\ AC_ADAPTERS = <<>>
    /\ notified = <<>>
    /\ bats = <<>>
    /\ plugged = FALSE
    /\ interval = None
    /\ fired = {}
    /\ tree = {}
    /\ onlineRead = <<>>
    /\ before = None
    /\ runFires = <<>>
    /\ hist = <<>>
    /\ args_no_notify = FALSE
    /\ NOTIFY_AVAILABLE = FALSE
    /\ outcomes = <<>>
    /\ twin = None

\* Variant: the start-up check tests "BATTERIES is None", which an empty list
\* passes.
Startup_no_exit(argInterval, noNotify, which, batDirs, acDirs) ==
    LET found == detect_power_devices(batDirs, acDirs) IN
    /\ pc = "start"
    /\ args_no_notify' = noNotify
    /\ CHECK_INTERVAL' = Max(1, argInterval)
    /\ BATTERIES' = found.bats
    /\ AC_ADAPTERS' = found.acs
    /\ tree' = {}
    /\ pc' = "loop"
    /\ NOTIFY_AVAILABLE' = which
    /\ notified' = init_notified(found.bats)
    /\ runFires' = [n \in DOMAIN notified' |-> NoRun]
    /\ twin' = Some([pc |-> "loop", notified |-> init_notified(found.bats)])
    /\ UNCHANGED outcomes
    /\ UNCHANGED <<bats, plugged, interval, fired, before, onlineRead, hist>>

\* Module level, lines 74-225, and main()'s line 385.  which is whether
\* shutil.which finds notify-send.
Startup(argInterval, noNotify, which, batDirs, acDirs) ==
    LET found == detect_power_devices(batDirs, acDirs) IN
    /\ pc = "start"
    /\ args_no_notify' = noNotify
    /\ CHECK_INTERVAL' = Max(1, argInterval)
    /\ BATTERIES' = found.bats
    /\ AC_ADAPTERS' = found.acs
    /\ tree' = {}
    /\ IF found.bats = <<>>
       THEN /\ pc' = "exit1"
            /\ UNCHANGED <<NOTIFY_AVAILABLE, notified, runFires, twin>>
       ELSE /\ pc' = "loop"
            /\ NOTIFY_AVAILABLE' = which
            /\ notified' = init_notified(found.bats)
            /\ runFires' = [n \in DOMAIN notified' |-> NoRun]
            /\ twin' = Some([pc |-> "loop", notified |-> init_notified(found.bats)])
    /\ UNCHANGED outcomes
    /\ UNCHANGED <<bats, plugged, interval, fired, before, onlineRead, hist>>

\* Variant: the comparison is of a list with a set, which always differ.
reconcile_always(batts, notif) == init_notified(BATTERIES)

\* Lines 394-399: the latch map the rules are evaluated on.
reconcile(batts, notif) ==
    LET current_names == {batts[i].name : i \in 1..Len(batts)}
    IN  IF DOMAIN notif # current_names THEN init_notified(BATTERIES) ELSE notif

\* One iteration of the loop (lines 389-413) of a run that is at the top of the
\* loop, has latch map t.notified, reads batts and plug and has every
\* notification delivered.
twin_poll(t, batts, plug) ==
    IF t.pc # "loop" THEN t
    ELSE LET done == eval_from(1, batts, plug,
                               [notified |-> reconcile(batts, t.notified),
                                fired |-> {}])
         IN  [pc |-> IF \E f \in done.fired : notify(FALSE, TRUE, FALSE) = "raised"
                     THEN "crashed" ELSE "sleep",
              notified |-> done.notified]

\* One iteration of the loop, lines 389-413.  dirs are the battery directories
\* that exist while the files are read: a file of a missing directory cannot
\* be read.  raises are the classes for which subprocess.run raises in this
\* iteration.  An exception that left notify() would leave the rule and main().
Poll(dirs, files, online, raises) ==
    /\ pc = "loop"
    /\ \A i \in 1..Len(BATTERIES) :
          BATTERIES[i] \notin dirs => files[i] = [capacity |-> None, status |-> None]
    /\ tree' = dirs
    /\ onlineRead' = online
    /\ bats' = read_all_batteries(files)
    /\ plugged' = is_plugged_any(bats', online)
    /\ LET start == reconcile(bats', notified)
           done == eval_from(1, bats', plugged', [notified |-> start, fired |-> {}])
       IN  /\ before' = Some([notified |-> notified, plugged |-> plugged,
                              rules |-> start, hist |-> hist])
           /\ notified' = done.notified
           /\ fired' = done.fired
    /\ interval' = Some(next_interval(bats'))
    /\ runFires' = [n \in DOMAIN notified' |->
                      [c \in Classes |->
                          IF Trigger(c, Reading(bats', n), plugged')
                          THEN (IF n \in DOMAIN runFires THEN runFires[n][c] ELSE 0)
                               + (IF <<n, c>> \in fired' THEN 1 ELSE 0)
                          ELSE 0]]
    /\ hist' = [n \in DOMAIN hist |->
                  IF n \notin DOMAIN notified' THEN hist[n]
                  ELSE [c \in Classes |->
                          Since(hist[n][c], <<n, c>> \in fired', plugged',
                                Reading(bats', n).percent # None)]]
    /\ outcomes' = [f \in fired' |->
                        notify(args_no_notify, NOTIFY_AVAILABLE, f[2] \in raises)]
    /\ pc' = IF \E f \in fired' : outcomes'[f] = "raised" THEN "crashed" ELSE "sleep"
    /\ twin' = Some(twin_poll(Val(twin), bats', plugged'))
    /\ UNCHANGED <<CHECK_INTERVAL, BATTERIES, AC_ADAPTERS, args_no_notify,
                   NOTIFY_AVAILABLE>>

\* time.sleep(interval), line 415, and back to the top of the loop; the
\* readings and the interval of the finished iteration are not used again.
Sleep ==
    /\ pc = "sleep"
    /\ pc' = "loop"
    /\ bats' = <<>>
    /\ interval' = None
    /\ fired' = {}
    /\ before' = None
    /\ tree' = {}
    /\ onlineRead' = <<>>
    /\ outcomes' = <<>>
    /\ twin' = Some([Val(twin) EXCEPT !.pc = IF @ = "sleep" THEN "loop" ELSE @])
    /\ UNCHANGED <<CHECK_INTERVAL, BATTERIES, AC_ADAPTERS, notified, plugged,
                   runFires, hist, args_no_notify, NOTIFY_AVAILABLE>>

\* What safe_read may return for the two files of one battery.
Files(capTexts, statusTexts) ==
    [capacity : safe_read(capTexts), status : safe_read(statusTexts)]

\* The program with the default interval: every combination of battery and
\* adapter directories at start-up, and every content of the files in a poll.
StartupStep ==
    /\ pc = "start"
    /\ \E b \in SUBSET BatNames, c \in SUBSET {"AC"} :
          Startup(DEFAULT_CHECK_INTERVAL, FALSE, TRUE, b, c)

PollStep ==
    /\ pc = "loop"
    /\ \E b \in SUBSET BatNames,
          f \in [1..Len(BATTERIES) -> Files(CapTexts, StatusTexts)],
          o \in [1..Len(AC_ADAPTERS) -> safe_read(OnlineTexts)] :
          Poll(b, f, o, {})

Next ==
    \/ StartupStep
    \/ PollStep
    \/ Sleep

Spec == Init /\ [][Next]_vars

\* The program started with every --interval up to MaxInterval on a machine
\* with both batteries and no adapter, polled with every capacity reading.
SchedStartupStep ==
    /\ pc = "start"
    /\ \E a \in 0..MaxInterval : Startup(a, FALSE, TRUE, BatNames, {})

SchedPollStep ==
    /\ pc = "loop"
    /\ \E f \in [1..Len(BATTERIES) -> Files(SchedCapTexts, {"Discharging"})] :
          Poll(BatNames, f, <<>>, {})

NextSched ==
    \/ SchedStartupStep
    \/ SchedPollStep
    \/ Sleep

SpecSched == Init /\ [][NextSched]_vars

\* One battery and the adapter, every content of the files in a poll, with the
\* history of the battery's classes followed.
InitSingle ==
    /\ pc = "start"
    /\ CHECK_INTERVAL = DEFAULT_CHECK_INTERVAL
    /\ BATTERIES = <<>>
    /\ AC_ADAPTERS = <<>>
    /\ notified = <<>>
    /\ bats = <<>>
    /\ plugged = FALSE
    /\ interval = None
    /\ fired = {}
    /\ tree = {}
    /\ onlineRead = <<>>
    /\ before = None
    /\ runFires = <<>>
    /\ hist = [n \in {BatDirs[1]} |-> [c \in Classes |-> "idle"]]
    /\ args_no_notify = FALSE
    /\ NOTIFY_AVAILABLE = FALSE
    /\ outcomes = <<>>
    /\ twin = None

SingleStartupStep ==
    /\ pc = "start"
    /\ Startup(DEFAULT_CHECK_INTERVAL, FALSE, TRUE, {BatDirs[1]}, {"AC"})

NextSingle ==
    \/ SingleStartupStep
    \/ PollStep
    \/ Sleep

SpecSingle == InitSingle /\ [][NextSingle]_vars

\* One battery and the adapter, started with and without --no-notify and with
\* and without notify-send installed; in each poll subprocess.run may raise for
\* any of the classes.
DeliveryStartupStep ==
    /\ pc = "start"
    /\ \E n \in BOOLEAN, w \in BOOLEAN :
          Startup(DEFAULT_CHECK_INTERVAL, n, w, {BatDirs[1]}, {"AC"})

DeliveryPollStep ==
    /\ pc = "loop"
    /\ \E b \in SUBSET BatNames,
          f \in [1..Len(BATTERIES) -> Files(CapTexts, StatusTexts)],
          o \in [1..Len(AC_ADAPTERS) -> safe_read(OnlineTexts)],
          r \in SUBSET Classes :
          Poll(b, f, o, r)

NextDelivery ==
    \/ DeliveryStartupStep
    \/ DeliveryPollStep
    \/ Sleep

SpecDelivery == Init /\ [][NextDelivery]_vars

(***************************************************************************)
(* Properties.  A poll has been evaluated when pc = "sleep": bats, plugged, *)
(* fired and interval are those of the poll, notified is the latch map     *)
(* after it and Latches(n) the latches of n the rules were evaluated on.   *)
(***************************************************************************)
Polled == pc = "sleep"
Names == DOMAIN notified
Latches(n) == Val(before).rules[n]
WasPlugged == Val(before).plugged
Known(n) == Reading(bats, n).percent # None
Percent(n) == Val(Reading(bats, n).percent)
Fired(n, c) == <<n, c>> \in fired

\* C1: within a run of consecutive polls in which the trigger condition of a
\* class holds for a battery in each poll, the notification of that class is
\* fired at most once for that battery.
C1_NoDuplicateInRun ==
    \A n \in DOMAIN runFires : \A c \in Classes : runFires[n][c] <= 1

\* The trigger of high holds for a battery in this poll, its notification was
\* fired in an earlier poll of the same run, and it is not fired again.
C1_Witness ==
    /\ Polled
    /\ \E n \in Names :
          /\ Trigger("high", Reading(bats, n), plugged)
          /\ runFires[n]["high"] = 1
          /\ ~Fired(n, "high")
          /\ Latches(n).high

\* C2: in every poll, for every battery and class, the notification is fired
\* exactly when the percent is known, the latch was false before the evaluation
\* and the trigger condition holds; the latch goes false -> true in exactly
\* those polls.
C2_FiresExactlyOnTrigger ==
    Polled =>
        \A n \in Names : \A c \in Classes :
            /\ Fired(n, c) <=> (~Latches(n)[c] /\ Trigger(c, Reading(bats, n), plugged))
            /\ (~Latches(n)[c] /\ notified[n][c]) <=> Fired(n, c)

\* One battery fires full (latch false before, true after) while the trigger of
\* high holds for a battery whose high latch was already true, which fires nothing.
C2_Witness ==
    /\ Polled
    /\ \E n \in Names :
          Fired(n, "full") /\ ~Latches(n).full /\ notified[n].full
    /\ \E n \in Names :
          /\ Trigger("high", Reading(bats, n), plugged)
          /\ Latches(n).high /\ ~Fired(n, "high")

\* C3: in a poll where a battery's percent is unavailable, its four latch bits
\* are unchanged and no notification is fired for it.
C3_UnknownPercentFrame ==
    Polled =>
        \A n \in Names :
            ~Known(n) => /\ notified[n] = Latches(n)
                         /\ \A c \in Classes : ~Fired(n, c)

\* The percent of a battery is unavailable in a poll that observes unplugged
\* while its high latch is true (a known percent would reset it): the latch
\* is still true.
C3_Witness ==
    /\ Polled
    /\ \E n \in Names : ~Known(n) /\ ~plugged /\ Latches(n).high /\ notified[n].high

\* C4 as stated: when plugged is true in one poll and false in the next, the
\* high and unplug latches of every battery are false after that next poll,
\* whatever the battery's percent reading is.
C4_Original ==
    (Polled /\ WasPlugged /\ ~plugged) =>
        \A n \in Names : ~notified[n].high /\ ~notified[n].unplug

\* C4 amended: when plugged is true in one poll and false in the next, the high
\* and unplug latches of every battery whose percent is known in that next poll
\* are false after it.
C4_UnplugResetsHighUnplug ==
    (Polled /\ WasPlugged /\ ~plugged) =>
        \A n \in Names : Known(n) => ~notified[n].high /\ ~notified[n].unplug

\* Plugged was true in the poll before and is false in this one, for a battery
\* with known percent whose high and unplug latches were true.
C4_Witness ==
    /\ Polled /\ WasPlugged /\ ~plugged
    /\ \E n \in Names :
          /\ Known(n) /\ Latches(n).high /\ Latches(n).unplug
          /\ ~notified[n].high /\ ~notified[n].unplug

\* C5 as stated: if the full latch is true and a poll observes unplugged with
\* the percent still at 100 or above, the full latch is still true after it.
C5_Original ==
    Polled =>
        \A n \in Names :
            (Latches(n).full /\ ~plugged /\ Known(n) /\ Percent(n) >= 100)
                => notified[n].full

\* C5 amended: if the full latch is true and a poll observes unplugged with a
\* known percent, the full latch is false after that poll, also when the percent
\* is still at 100 or above.
C5_UnplugResetsFull ==
    Polled =>
        \A n \in Names :
            (Latches(n).full /\ ~plugged /\ Known(n)) => ~notified[n].full

\* The full latch was true, the poll observes unplugged at 100 and the latch
\* is false after it.
C5_Witness ==
    /\ Polled
    /\ \E n \in Names :
          /\ Latches(n).full /\ ~plugged /\ Known(n) /\ Percent(n) = 100
          /\ ~notified[n].full

\* C6: a battery with unplug and full latches false that reports 100 while
\* plugged fires both notifications in that poll and both latches become true;
\* a poll that observes unplugged with percent 100 leaves both latches false.
C6_FullScenario ==
    Polled =>
        \A n \in Names :
            /\ (Known(n) /\ Percent(n) = 100 /\ plugged
                   /\ ~Latches(n).unplug /\ ~Latches(n).full)
                => /\ Fired(n, "unplug") /\ Fired(n, "full")
                   /\ notified[n].unplug /\ notified[n].full
            /\ (Known(n) /\ Percent(n) = 100 /\ ~plugged)
                => ~notified[n].unplug /\ ~notified[n].full

\* Both latches of a battery were set by an earlier poll, and the poll that
\* observes unplugged at 100 has reset both.
C6_Witness ==
    /\ Polled
    /\ \E n \in Names :
          /\ Latches(n).unplug /\ Latches(n).full
          /\ Known(n) /\ Percent(n) = 100 /\ ~plugged
          /\ ~notified[n].unplug /\ ~notified[n].full

C8_Original ==
    (Polled /\ tree # DOMAIN Val(before).notified) =>
        Val(before).rules =
            [n \in tree |-> [low |-> FALSE, high |-> FALSE,
                             unplug |-> FALSE, full |-> FALSE]]

\* C9 as stated: when no battery reports a percent in a poll, the delay before
\* the next poll is the configured base interval.
C9_Original ==
    (Polled /\ \A n \in Names : ~Known(n)) => interval = Some(CHECK_INTERVAL)

\* The least percent over the batteries that report one.
MinKnown ==
    CHOOSE m \in {Percent(n) : n \in {k \in Names : Known(k)}} :
        \A n \in Names : Known(n) => m <= Percent(n)

\* C10: when at least one battery reports a percent, the delay before the next
\* poll is 20 if the least reported percent is at most 20, 40 if it is above 20
\* and at most 40, and the configured base interval otherwise.
C10_IntervalFromMinPercent ==
    (Polled /\ \E n \in Names : Known(n)) =>
        interval = Some(IF MinKnown <= 20 THEN 20
                        ELSE IF MinKnown <= 40 THEN 40
                        ELSE CHECK_INTERVAL)

\* One battery reports no percent, the other 21..40, the base interval is
\* neither 20 nor 40 and the delay is 40.
C10_Witness ==
    /\ Polled
    /\ \E n \in Names : ~Known(n)
    /\ \E n \in Names : Known(n) /\ Percent(n) > 20 /\ Percent(n) <= 40
    /\ CHECK_INTERVAL \notin {20, 40}
    /\ interval = Some(40)

\* C11: the low notification is fired for no battery in a poll whose plugged
\* flag is true, that is, in a poll where a battery reports the status charging
\* or full or an adapter reports online, whatever the percents are.
C11_NoLowWhilePlugged ==
    (Polled /\ (\/ plugged
                \/ \E i \in 1..Len(bats) : bats[i].status \in {"charging", "full"}
                \/ \E i \in 1..Len(onlineRead) : onlineRead[i] = Some("1")))
        => \A n \in Names : ~Fired(n, "low")

\* The adapter is online, no battery is charging or full, and a battery whose
\* low latch is false reports a percent of at most 20: low is not fired.
C11_Witness ==
    /\ Polled
    /\ \E i \in 1..Len(onlineRead) : onlineRead[i] = Some("1")
    /\ \A i \in 1..Len(bats) : bats[i].status \notin {"charging", "full"}
    /\ \E n \in Names :
          Known(n) /\ Percent(n) <= 20 /\ ~Latches(n).low /\ ~Fired(n, "low")

\* C12: the plugged flag of a poll is true exactly when a battery reading of
\* the poll has the status charging or full or an adapter reports online "1";
\* an adapter whose online file cannot be read counts as not online; and the
\* rules are evaluated on the latch map as it was before the flag was computed.
C12_PluggedIffAnySource ==
    Polled =>
        /\ plugged <=>
              (\/ \E i \in 1..Len(bats) :
                     bats[i].status = "charging" \/ bats[i].status = "full"
               \/ \E i \in 1..Len(onlineRead) :
                     onlineRead[i] # None /\ Val(onlineRead[i]) = "1")
        /\ Val(before).rules = Val(before).notified

\* A battery reports full, none reports charging, the adapter's online file
\* cannot be read, and the flag is true while a latch was set before the poll.
C12_Witness ==
    /\ Polled
    /\ plugged
    /\ \E i \in 1..Len(bats) : bats[i].status = "full"
    /\ \A i \in 1..Len(bats) : bats[i].status # "charging"
    /\ \E i \in 1..Len(onlineRead) : onlineRead[i] = None
    /\ \E n \in Names : Val(before).notified[n].low

\* C13: with no battery detected at start-up the process ends in the failed
\* exit, entered from the start-up only and never left, so no poll is run;
\* with a battery detected the loop starts; a poll in which a battery's
\* directory is missing or its capacity unreadable ends at the sleep with that
\* percent unknown, the sleep leads back to the top of the loop, and at the
\* top of the loop and at the sleep the next step is always possible.
C13_FatalOnlyAtStartup ==
    /\ [](/\ pc = "loop" => ENABLED PollStep
          /\ pc = "sleep" => ENABLED Sleep)
    /\ [][/\ pc = "start" =>
                pc' = IF BATTERIES' = <<>> THEN "exit1" ELSE "loop"
          /\ pc' = "exit1" => pc = "start" /\ BATTERIES' = <<>>
          /\ pc = "exit1" => FALSE
          /\ pc = "loop" =>
                /\ pc' = "sleep"
                /\ BATTERIES' = BATTERIES
                /\ \A i \in 1..Len(BATTERIES) :
                      BATTERIES[i] \notin tree' => bats'[i].percent = None
          /\ pc = "sleep" => pc' = "loop"]_vars

\* A poll has ended at the sleep although the directory of a battery detected
\* at start-up was missing; its percent is unknown.
C13_Witness ==
    /\ Polled
    /\ \E i \in 1..Len(BATTERIES) :
          BATTERIES[i] \notin tree /\ bats[i].percent = None

Charge == {"high", "unplug", "full"}

\* C14 as stated: for high, unplug and full, once the notification has fired
\* and a later poll has observed unplugged, a poll that observes plugged with
\* the trigger condition holding finds the notification fired again, in that
\* poll at the latest.
C14_Original ==
    Polled =>
        \A n \in DOMAIN hist : \A c \in Charge :
            (n \in Names /\ Trigger(c, Reading(bats, n), plugged))
                => hist[n][c] \notin {"unplugged-known", "unplugged-unknown"}

\* C14 amended: for high, unplug and full, once the notification has fired and
\* a later poll has observed unplugged with the battery's percent known, a
\* poll that observes plugged with the trigger condition holding finds the
\* notification fired again, in that poll at the latest.
C14_RefireAfterKnownUnplug ==
    Polled =>
        \A n \in DOMAIN hist : \A c \in Charge :
            (n \in Names /\ Trigger(c, Reading(bats, n), plugged))
                => hist[n][c] # "unplugged-known"

\* High had fired, a poll has observed unplugged with the percent known since,
\* and this poll, which observes plugged with the trigger holding, fires it again.
C14_Witness ==
    /\ Polled
    /\ \E n \in DOMAIN hist :
          /\ n \in Names
          /\ Val(before).hist[n]["high"] = "unplugged-known"
          /\ Trigger("high", Reading(bats, n), plugged)
          /\ Fired(n, "high")

\* C15 as stated: after every poll, a latch bit that is true has had its
\* trigger condition hold in every poll since it last went false -> true.  The
\* bit has been true after each of those polls, so this says that after every
\* poll a true bit has its trigger condition holding in that poll.
C15_Original ==
    Polled =>
        \A n \in Names : \A c \in Classes :
            notified[n][c] => Trigger(c, Reading(bats, n), plugged)

\* The reset condition of each class (spec 4.3).
Reset(class, percent, plug) ==
    CASE class = "low"    -> plug
      [] class = "high"   -> ~plug
      [] class = "unplug" -> ~plug \/ percent < 95
      [] class = "full"   -> ~plug \/ percent < 100

C17_Original ==
    pc \in {"loop", "sleep"} =>
        \A m1 \in 0..MaxPercent : \A m2 \in m1..MaxPercent :
            /\ dynamic_interval(m1) <= dynamic_interval(m2)
            /\ m1 <= 20 => dynamic_interval(m1) <= CHECK_INTERVAL

\* C19: after every poll and for every battery, full latched implies unplug
\* latched, unplug latched implies high latched, and low and high are not both
\* latched.
C19_LatchNesting ==
    \A n \in Names :
        /\ notified[n].full => notified[n].unplug
        /\ notified[n].unplug => notified[n].high
        /\ ~(notified[n].low /\ notified[n].high)

\* After a poll one battery has high, unplug and full latched while another
\* still has low latched.
C19_Witness ==
    /\ Polled
    /\ \E n \in Names : notified[n].full /\ notified[n].unplug /\ notified[n].high
    /\ \E n \in Names : notified[n].low

C18_DeliveryIndependent ==
    /\ pc \in {"start", "exit1", "loop", "sleep"}
    /\ pc \in {"loop", "sleep"} =>
          /\ Val(twin).pc = pc
          /\ Val(twin).notified = notified
    /\ Polled =>
          /\ DOMAIN outcomes = fired
          /\ \A f \in fired : notified[f[1]][f[2]]

\* In one poll three notifications are fired; subprocess.run raises for one of
\* them and runs notify-send for the others, the three latches are true and so
\* are those of the run that delivers everything.
C18_Witness ==
    /\ Polled
    /\ \E n \in Names :
          /\ Fired(n, "high") /\ Fired(n, "unplug") /\ Fired(n, "full")
          /\ outcomes[<<n, "high">>] = "sent"
          /\ outcomes[<<n, "unplug">>] = "failed"
          /\ notified[n].high /\ notified[n].unplug /\ notified[n].full
          /\ Val(twin).notified = notified

====
